---- MODULE Spec2Model ----
(***************************************************************************)
(* Model of app.py: the Bright Horizon fee management application.         *)
(*                                                                         *)
(* Strings are sequences of characters, so that clean_name, str.strip and  *)
(* float() are computed character by character; an ASCII character is a    *)
(* one-character string, another one is written by its code point. Amounts *)
(* are floats with whole-number values (the inputs modelled are integer    *)
(* literals); a sum or difference of floats is rounded to the mantissa.    *)
(* The document store is a function from identifiers to documents;         *)
(* ObjectIds are the positive integers in generation order.                *)
(***************************************************************************)
EXTENDS Integers, Sequences, FiniteSets, TLC

VARIABLES
    students,   \* students_col: identifier -> student document
    nextId,     \* the next ObjectId the store generates
    logs,       \* logs_col, in insertion order
    admins,     \* admins_col, in insertion order
    session,    \* the flask-login session: <<>> anonymous, <<i>> admin number i
    flashes,    \* session["_flashes"], the pending notices
    now,        \* the clock: the number of datetime.utcnow() reads so far
    resp,       \* the response of the last request
    arg,        \* input of the pure function under check
    ret,        \* <<>> before the function is applied, <<result>> after
    inflight    \* the requests between their duplicate lookup and their write

vars == <<students, nextId, logs, admins, session, flashes, now, resp, arg, ret, inflight>>

-----------------------------------------------------------------------------
(* Bounds *)

MaxIds == 2
MaxLogs == 3
MaxFlashes == 1
MaxNameLen == 4
\* the width of a float's mantissa, scaled down from 53 bits so that sums of the amounts
\* modelled round as sums of larger amounts do
MantissaBits == 3
MaxStudents == 3
MaxPayments == 1
MaxQueued == 3
MaxRequests == 2

-----------------------------------------------------------------------------
(* Strings *)

\* Python's None, distinct from every string (a string's elements are single characters)
None == <<"None">>

\* LATIN CAPITAL LETTER I WITH DOT ABOVE and COMBINING DOT ABOVE
DottedCapitalI == "U+0130"
CombiningDot == "U+0307"

Whitespace == {" "}
LowerCase == {"a", "b", "i"}
UpperCase == {"A", "B", "I", DottedCapitalI}
Digits == {"0", "3", "5", "8"}

\* the case mappings of one character: a string, of two characters for the lower case of
\* the dotted capital I; the title case of a character here is its upper case
ToUpper(c) ==
    CASE c = "a" -> <<"A">> [] c = "b" -> <<"B">> [] c = "i" -> <<"I">> [] OTHER -> <<c>>
ToLower(c) ==
    CASE c = "A" -> <<"a">> [] c = "B" -> <<"b">> [] c = "I" -> <<"i">>
      [] c = DottedCapitalI -> <<"i", CombiningDot>>
      [] OTHER -> <<c>>
IsCased(c) == c \in LowerCase \cup UpperCase

\* str.lower()
RECURSIVE Lower(_)
Lower(s) == IF s = <<>> THEN <<>> ELSE ToLower(Head(s)) \o Lower(Tail(s))

RECURSIVE LStrip(_)
LStrip(s) == IF s # <<>> /\ Head(s) \in Whitespace THEN LStrip(Tail(s)) ELSE s

RECURSIVE RStrip(_)
RStrip(s) ==
    IF s # <<>> /\ s[Len(s)] \in Whitespace THEN RStrip(SubSeq(s, 1, Len(s) - 1)) ELSE s

\* str.strip()
Strip(s) == RStrip(LStrip(s))

\* str.split() with no separator: the maximal runs of non-whitespace characters
RECURSIVE SplitFrom(_, _, _)
SplitFrom(s, cur, acc) ==
    IF s = <<>> THEN (IF cur = <<>> THEN acc ELSE Append(acc, cur))
    ELSE IF Head(s) \in Whitespace
         THEN SplitFrom(Tail(s), <<>>, IF cur = <<>> THEN acc ELSE Append(acc, cur))
         ELSE SplitFrom(Tail(s), Append(cur, Head(s)), acc)

Split(s) == SplitFrom(s, <<>>, <<>>)

\* " ".join(words)
RECURSIVE JoinSpace(_)
JoinSpace(words) ==
    IF words = <<>> THEN <<>>
    ELSE IF Len(words) = 1 THEN words[1]
    ELSE words[1] \o <<" ">> \o JoinSpace(Tail(words))

\* str.title(): a cased character is upper-cased unless the character before it is cased
RECURSIVE TitleFrom(_, _)
TitleFrom(s, previous_is_cased) ==
    IF s = <<>> THEN <<>>
    ELSE (IF previous_is_cased THEN ToLower(Head(s)) ELSE ToUpper(Head(s)))
         \o TitleFrom(Tail(s), IsCased(Head(s)))

\* str.capitalize() in the place of str.title()
TitleCapitalize(s) ==
    IF s = <<>> THEN <<>>
    ELSE ToUpper(Head(s)) \o Lower(Tail(s))

Title(s) == TitleFrom(s, FALSE)

clean_name(name) ==
    IF name = None \/ name = <<>> THEN <<>>
    ELSE Title(JoinSpace(Split(name)))

-----------------------------------------------------------------------------
(* Numbers *)

RECURSIVE Pow2(_)
Pow2(n) == IF n = 0 THEN 1 ELSE 2 * Pow2(n - 1)

\* the nearest multiple of a power of two that fits the mantissa, ties to the even mantissa
RECURSIVE RoundMagnitude(_, _)
RoundMagnitude(m, unit) ==
    LET q == m \div unit
        r == m % unit
    IN  IF q >= Pow2(MantissaBits) THEN RoundMagnitude(m, 2 * unit)
        ELSE IF 2 * r > unit \/ (2 * r = unit /\ q % 2 = 1) THEN (q + 1) * unit
        ELSE q * unit

\* the float nearest to the number x
Round(x) == IF x < 0 THEN 0 - RoundMagnitude(0 - x, 1) ELSE RoundMagnitude(x, 1)

\* float + float and float - float
FAdd(a, b) == Round(a + b)
FSub(a, b) == Round(a - b)

DigitVal(c) == CASE c = "0" -> 0 [] c = "3" -> 3 [] c = "5" -> 5 [] c = "8" -> 8

RECURSIVE DigitsVal(_, _)
DigitsVal(s, acc) == IF s = <<>> THEN acc ELSE DigitsVal(Tail(s), 10 * acc + DigitVal(Head(s)))

IsDigits(s) == s # <<>> /\ \A i \in 1..Len(s) : s[i] \in Digits

\* float(x): surrounding whitespace is ignored, an optional sign, then digits;
\* anything else raises ValueError; the result is <<parsed, value>>
Float(x) ==
    LET t == Strip(x)
        u == IF t # <<>> /\ t[1] \in {"-", "+"} THEN Tail(t) ELSE t
    IN  IF IsDigits(u)
        THEN <<TRUE, Round(IF t[1] = "-" THEN 0 - DigitsVal(u, 0) ELSE DigitsVal(u, 0))>>
        ELSE <<FALSE, 0>>

\* float(raw or 0): None and "" are falsy and give float(0)
FloatOrZero(raw) ==
    IF raw = None \/ raw = <<>> THEN <<TRUE, 0>> ELSE Float(raw)

-----------------------------------------------------------------------------
(* Inputs *)

\* request.form values; None is an absent field
RawNames == {None, <<"a">>, <<" ", "A", " ">>}
RawClasses == {<<"5">>, <<"8", " ">>}
RawContacts == {<<"3", " ">>}
RawFees == {None, <<>>, <<"a">>, <<"5">>, <<"-", "3">>}
RawAmounts == {None, <<>>, <<"a">>, <<"8">>}
RawNotes == {None}

\* the identifier in the URL: 0 is a string ObjectId() rejects; a positive one is well formed
MalformedSid == 0
Sids == {MalformedSid} \cup (1..MaxIds)

Usernames == {"admin", "eve"}
Passwords == {"p", "q"}

-----------------------------------------------------------------------------
(* Passwords *)

generate_password_hash(password) == <<"pbkdf2", password>>

check_password_hash(pwhash, password) == pwhash = generate_password_hash(password)

\* the environment: "" is an unset variable
Envs ==
    [ADMIN_USERNAME : {"admin"},
     ADMIN_PASSWORD : {"", "p"},
     ADMIN_PASSWORD_HASH : {<<>>, generate_password_hash("p")}]

\* the bootstrap without its test for an existing admin
ensure_admin_unconditionally(col, env, t) ==
    IF env.ADMIN_PASSWORD_HASH # <<>>
    THEN Append(col, [username |-> env.ADMIN_USERNAME,
                      password_hash |-> env.ADMIN_PASSWORD_HASH,
                      created_at |-> t])
    ELSE IF env.ADMIN_PASSWORD # ""
    THEN Append(col, [username |-> env.ADMIN_USERNAME,
                      password_hash |-> generate_password_hash(env.ADMIN_PASSWORD),
                      created_at |-> t])
    ELSE col

\* ensure_admin(): the admins collection after the first-run bootstrap
ensure_admin(col, env, t) ==
    IF Len(col) = 0
    THEN IF env.ADMIN_PASSWORD_HASH # <<>>
         THEN Append(col, [username |-> env.ADMIN_USERNAME,
                           password_hash |-> env.ADMIN_PASSWORD_HASH,
                           created_at |-> t])
         ELSE IF env.ADMIN_PASSWORD # ""
         THEN Append(col, [username |-> env.ADMIN_USERNAME,
                           password_hash |-> generate_password_hash(env.ADMIN_PASSWORD),
                           created_at |-> t])
         ELSE col
    ELSE col

-----------------------------------------------------------------------------
(* Session, notices, responses *)

Anonymous == <<>>

\* load_user: the session's user id names an admin document
is_authenticated == session # Anonymous /\ session[1] \in 1..Len(admins)

current_username == admins[session[1]].username

\* a response is <<kind, target, student id>>
Redirect(endpoint, sid) == <<"redirect", endpoint, sid>>
\* a rendered page or a JSON body is recorded by its kind; what it shows is computed by
\* the operators of the reports below
Render(template) == <<"render", "", 0>>
Json == <<"json", "", 0>>
ServerError(exception) == <<"error", exception, 0>>

\* flash(message, category): a notice is <<category, message>>
Flashed(queue, category, message) ==
    Append(queue, <<category, message>>)

CanFlash == Len(flashes) < MaxFlashes

\* a rendered template may show, and so consume, the pending notices
AfterRender == {flashes, <<>>}

\* unauthorized(): the notice and the redirect to the login page
unauthorized ==
    /\ CanFlash
    /\ flashes' = Flashed(flashes, "message", "Please log in to access this page.")
    /\ resp' = Redirect("login", 0)
    /\ UNCHANGED <<students, nextId, logs, admins, session, now, arg, ret, inflight>>

\* the gate left open
admin_not_required(f) == f

\* admin_required(f)
admin_required(f) ==
    \/ ~is_authenticated /\ unauthorized
    \/ is_authenticated /\ f

\* datetime.utcnow(), the k-th read of the request: every read is later than the one before
utcnow(k) == now + k

\* the entry written without the acting admin
log_action_by_system(col, act, sid, extra, t) ==
    Append(col, [action |-> act, student_id |-> sid, extra |-> extra, by |-> "system", at |-> t])

\* log_action(act, details), called at time t
log_action(col, act, sid, extra, t) ==
    Append(col, [action |-> act,
                 student_id |-> sid,
                 extra |-> extra,
                 by |-> IF is_authenticated THEN current_username ELSE "system",
                 at |-> t])

CanLog == Len(logs) < MaxLogs

-----------------------------------------------------------------------------
(* The student store *)

\* request.form.get(key, "").strip()
FormStripped(raw) == IF raw = None THEN <<>> ELSE Strip(raw)

Ids == DOMAIN students

\* the duplicate lookup left out of the edit
ExistingOnCreateOnly(name, cls, skip) ==
    IF skip = {} THEN {i \in Ids : students[i].name = name /\ students[i].class = cls} ELSE {}

\* the duplicate lookup left out of the create
ExistingOnEditOnly(name, cls, skip) ==
    IF skip # {} THEN {i \in Ids \ skip : students[i].name = name /\ students[i].class = cls}
    ELSE {}

\* find_one({"name": name, "class": cls, "_id": {"$ne": skip}})
Existing(name, cls, skip) ==
    {i \in Ids \ skip : students[i].name = name /\ students[i].class = cls}

\* insert_one
Inserted(col, id, doc) == [i \in DOMAIN col \cup {id} |-> IF i = id THEN doc ELSE col[i]]

\* delete_one({"_id": id})
Deleted(col, id) == [i \in DOMAIN col \ {id} |-> col[i]]

\* the document replaced instead of its fields set
UpdatedByReplace(col, id, name, cls, contact, total_fee, t) ==
    [i \in DOMAIN col |->
        IF i = id
        THEN [name |-> name, class |-> cls, contact |-> contact, total_fee |-> total_fee,
              payments |-> <<>>, created_at |-> t, updated_at |-> t]
        ELSE col[i]]

\* update_one({"_id": id}, {"$set": fields}) of edit_student
Updated(col, id, name, cls, contact, total_fee, t) ==
    [i \in DOMAIN col |->
        IF i = id
        THEN [col[i] EXCEPT !.name = name, !.class = cls, !.contact = contact,
                            !.total_fee = total_fee, !.updated_at = t]
        ELSE col[i]]

\* the payments field set instead of pushed to
PushedBySet(col, id, payment, t) ==
    [i \in DOMAIN col |->
        IF i = id
        THEN [col[i] EXCEPT !.payments = <<payment>>, !.updated_at = t]
        ELSE col[i]]

\* update_one({"_id": id}, {"$push": {"payments": payment}, "$set": {"updated_at": t}})
Pushed(col, id, payment, t) ==
    [i \in DOMAIN col |->
        IF i = id
        THEN [col[i] EXCEPT !.payments = Append(@, payment), !.updated_at = t]
        ELSE col[i]]

Unchanged == UNCHANGED <<students, nextId, logs, admins, session, flashes, now, arg, ret, inflight>>

\* the insert that looks for the pair again and writes only when it is absent
add_student_insert_if_absent(name, cls, contact, total_fee) ==
    IF Existing(name, cls, {}) # {}
    THEN /\ CanFlash
         /\ flashes' = Flashed(flashes, "warning",
                               "A student with this name already exists in this class!")
         /\ resp' = Redirect("add_student", 0)
         /\ UNCHANGED <<students, nextId, logs, admins, session, now, arg, ret>>
    ELSE /\ CanFlash /\ CanLog /\ nextId <= MaxIds
         /\ students' = Inserted(students, nextId,
                           [name |-> name, class |-> cls, contact |-> contact,
                            total_fee |-> total_fee, payments |-> <<>>,
                            created_at |-> utcnow(1), updated_at |-> utcnow(1)])
         /\ nextId' = nextId + 1
         /\ logs' = log_action(logs, "add_student", nextId, <<name>>, utcnow(2))
         /\ now' = utcnow(2)
         /\ flashes' = Flashed(flashes, "success", "Student added")
         /\ resp' = Redirect("students_list", 0)
         /\ UNCHANGED <<admins, session, arg, ret>>

\* add_student, POST, after the duplicate lookup: the insert, the log entry, the notice
add_student_insert(name, cls, contact, total_fee) ==
    /\ CanFlash /\ CanLog /\ nextId <= MaxIds
    /\ students' = Inserted(students, nextId,
                      [name |-> name, class |-> cls, contact |-> contact,
                       total_fee |-> total_fee, payments |-> <<>>,
                       created_at |-> utcnow(1), updated_at |-> utcnow(1)])
    /\ nextId' = nextId + 1
    /\ logs' = log_action(logs, "add_student", nextId, <<name>>, utcnow(2))
    /\ now' = utcnow(2)
    /\ flashes' = Flashed(flashes, "success", "Student added")
    /\ resp' = Redirect("students_list", 0)
    /\ UNCHANGED <<admins, session, arg, ret>>

\* add_student, POST
add_student_post(raw_name, raw_cls, raw_contact, raw_fee) ==
    LET name == clean_name(raw_name)
        cls == FormStripped(raw_cls)
        contact == FormStripped(raw_contact)
        total_fee == FloatOrZero(raw_fee)
    IN  IF ~total_fee[1]
        THEN resp' = ServerError("ValueError") /\ Unchanged
        ELSE IF Existing(name, cls, {}) # {}
        THEN /\ CanFlash
             /\ flashes' = Flashed(flashes, "warning",
                                   "A student with this name already exists in this class!")
             /\ resp' = Redirect("add_student", 0)
             /\ UNCHANGED <<students, nextId, logs, admins, session, now, arg, ret, inflight>>
        ELSE add_student_insert(name, cls, contact, total_fee[2]) /\ UNCHANGED inflight

\* add_student, GET
add_student_get ==
    /\ resp' = Render("student_form.html")
    /\ flashes' \in AfterRender
    /\ UNCHANGED <<students, nextId, logs, admins, session, now, arg, ret, inflight>>

\* edit_student up to the method test: the lookup of the student
edit_student_lookup(sid, found) ==
    IF sid = MalformedSid
    THEN resp' = ServerError("InvalidId") /\ Unchanged
    ELSE IF sid \notin Ids
    THEN /\ CanFlash
         /\ flashes' = Flashed(flashes, "error", "Student not found")
         /\ resp' = Redirect("students_list", 0)
         /\ UNCHANGED <<students, nextId, logs, admins, session, now, arg, ret, inflight>>
    ELSE found

\* edit_student, POST, after the duplicate lookup: the update, the log entry, the notice;
\* update_one changes nothing when the student has been deleted since the lookup
edit_student_update(sid, name, cls, contact, total_fee) ==
    /\ CanFlash /\ CanLog
    /\ students' = Updated(students, sid, name, cls, contact, total_fee, utcnow(1))
    /\ logs' = log_action(logs, "edit_student", sid, <<>>, utcnow(2))
    /\ now' = utcnow(2)
    /\ flashes' = Flashed(flashes, "success", "Student updated")
    /\ resp' = Redirect("students_list", 0)
    /\ UNCHANGED <<nextId, admins, session, arg, ret>>

\* edit_student, POST
edit_student_post(sid, raw_name, raw_cls, raw_contact, raw_fee) ==
    LET name == clean_name(raw_name)
        cls == FormStripped(raw_cls)
        contact == FormStripped(raw_contact)
        total_fee == FloatOrZero(raw_fee)
    IN  edit_student_lookup(sid,
          IF ~total_fee[1]
          THEN resp' = ServerError("ValueError") /\ Unchanged
          ELSE IF Existing(name, cls, {sid}) # {}
          THEN /\ CanFlash
               /\ flashes' = Flashed(flashes, "warning",
                              "Another student with this name already exists in this class!")
               /\ resp' = Redirect("edit_student", sid)
               /\ UNCHANGED <<students, nextId, logs, admins, session, now, arg, ret, inflight>>
          ELSE edit_student_update(sid, name, cls, contact, total_fee[2])
               /\ UNCHANGED inflight)

\* edit_student, GET
edit_student_get(sid) ==
    edit_student_lookup(sid,
        /\ resp' = Render("student_form.html")
        /\ flashes' \in AfterRender
        /\ UNCHANGED <<students, nextId, logs, admins, session, now, arg, ret, inflight>>)

\* a missing student reported as an error
delete_student_or_404(sid) ==
    IF sid = MalformedSid
    THEN resp' = ServerError("InvalidId") /\ Unchanged
    ELSE IF sid \notin Ids
    THEN resp' = ServerError("NotFound") /\ Unchanged
    ELSE /\ CanFlash /\ CanLog
         /\ students' = Deleted(students, sid)
         /\ logs' = log_action(logs, "delete_student", sid, <<>>, utcnow(1))
         /\ now' = utcnow(1)
         /\ flashes' = Flashed(flashes, "success", "Student deleted")
         /\ resp' = Redirect("students_list", 0)
         /\ UNCHANGED <<nextId, admins, session, arg, ret, inflight>>

\* delete_student
delete_student(sid) ==
    IF sid = MalformedSid
    THEN resp' = ServerError("InvalidId") /\ Unchanged
    ELSE /\ CanFlash /\ CanLog
         /\ students' = Deleted(students, sid)
         /\ logs' = log_action(logs, "delete_student", sid, <<>>, utcnow(1))
         /\ now' = utcnow(1)
         /\ flashes' = Flashed(flashes, "success", "Student deleted")
         /\ resp' = Redirect("students_list", 0)
         /\ UNCHANGED <<nextId, admins, session, arg, ret, inflight>>

\* the try/except of add_payment: float(amount or 0), 0 on ValueError
PaymentAmount(raw_amount) ==
    IF FloatOrZero(raw_amount)[1] THEN FloatOrZero(raw_amount)[2] ELSE 0

\* add_payment
add_payment(sid, raw_amount, raw_note) ==
    LET amount == PaymentAmount(raw_amount)
    IN  IF sid = MalformedSid
        THEN resp' = ServerError("InvalidId") /\ Unchanged
        ELSE /\ CanFlash /\ CanLog
             /\ students' = IF sid \in Ids
                            THEN Pushed(students, sid,
                                   [amount |-> amount, date |-> utcnow(1), note |-> raw_note],
                                   utcnow(2))
                            ELSE students
             /\ logs' = log_action(logs, "add_payment", sid, <<amount>>, utcnow(3))
             /\ now' = utcnow(3)
             /\ flashes' = Flashed(flashes, "success", "Payment recorded")
             /\ resp' = Redirect("edit_student", sid)
             /\ UNCHANGED <<nextId, admins, session, arg, ret, inflight>>

-----------------------------------------------------------------------------
(* Fee ledger and reports *)

\* sum(p.get("amount", 0) for p in payments): the additions from 0, in list order
RECURSIVE SumAmountsFrom(_, _)
SumAmountsFrom(payments, acc) ==
    IF payments = <<>> THEN acc
    ELSE SumAmountsFrom(Tail(payments), FAdd(acc, Head(payments).amount))

SumAmounts(payments) == SumAmountsFrom(payments, 0)

\* the balance that is never negative
calc_unpaid_clamped(student) ==
    IF FSub(student.total_fee, SumAmounts(student.payments)) < 0 THEN 0
    ELSE FSub(student.total_fee, SumAmounts(student.payments))

\* calc_unpaid(student)
calc_unpaid(student) == FSub(student.total_fee, SumAmounts(student.payments))

\* the first document of a find(): the store lists documents in the order of their ids
First(S) == CHOOSE i \in S : \A j \in S : i <= j

\* sum(s.get("total_fee", 0) for s in students)
RECURSIVE SumFeesFrom(_, _, _)
SumFeesFrom(col, S, acc) ==
    IF S = {} THEN acc
    ELSE SumFeesFrom(col, S \ {First(S)}, FAdd(acc, col[First(S)].total_fee))

SumFees(col, S) == SumFeesFrom(col, S, 0)

\* sum(sum(p.get("amount", 0) for p in s.get("payments", [])) for s in students)
RECURSIVE SumCollectedFrom(_, _, _)
SumCollectedFrom(col, S, acc) ==
    IF S = {} THEN acc
    ELSE SumCollectedFrom(col, S \ {First(S)}, FAdd(acc, SumAmounts(col[First(S)].payments)))

SumCollected(col, S) == SumCollectedFrom(col, S, 0)

\* the values of students_col.distinct("class")
Classes(col) == {col[i].class : i \in DOMAIN col}

\* students_col.distinct("class"): every value once, in an order the store chooses
ClassOrders(col) ==
    {order \in [1..Cardinality(Classes(col)) -> Classes(col)] :
        \A j \in DOMAIN order, k \in DOMAIN order : j # k => order[j] # order[k]}

\* students_col.find({"class": cls})
InClass(col, cls) == {i \in DOMAIN col : col[i].class = cls}

\* one class_stats entry of dashboard
ClassStat(col, cls) ==
    LET S == InClass(col, cls)
        class_total == SumFees(col, S)
        collected == SumCollected(col, S)
    IN  [class |-> cls,
         class_total |-> class_total,
         collected |-> collected,
         outstanding |-> FSub(class_total, collected),
         students_count |-> Cardinality(S)]

\* the total that keeps the figure of the last class only
RECURSIVE TotalCollectedOverwritten(_, _, _)
TotalCollectedOverwritten(col, classes, acc) ==
    IF classes = <<>> THEN acc
    ELSE TotalCollectedOverwritten(col, Tail(classes), ClassStat(col, Head(classes)).collected)

\* the loop of dashboard over the classes: total_collected += collected
RECURSIVE TotalCollected(_, _, _)
TotalCollected(col, classes, acc) ==
    IF classes = <<>> THEN acc
    ELSE TotalCollected(col, Tail(classes), FAdd(acc, ClassStat(col, Head(classes)).collected))

\* the loop of dashboard over the classes: total_outstanding += outstanding
RECURSIVE TotalOutstanding(_, _, _)
TotalOutstanding(col, classes, acc) ==
    IF classes = <<>> THEN acc
    ELSE TotalOutstanding(col, Tail(classes),
                          FAdd(acc, ClassStat(col, Head(classes)).outstanding))

\* what dashboard hands to its template, classes being the list distinct("class") returned
DashboardData(col, classes) ==
    [class_stats |-> [k \in 1..Len(classes) |-> ClassStat(col, classes[k])],
     total_collected |-> TotalCollected(col, classes, 0),
     total_outstanding |-> TotalOutstanding(col, classes, 0)]

\* the unpaid_list of unpaid
UnpaidList(col) ==
    {[id |-> i, name |-> col[i].name, class |-> col[i].class, unpaid |-> calc_unpaid(col[i])] :
        i \in {j \in DOMAIN col : calc_unpaid(col[j]) > 0}}

View(response) ==
    /\ resp' = response
    /\ flashes' \in AfterRender
    /\ UNCHANGED <<students, nextId, logs, admins, session, now, arg, ret, inflight>>

dashboard == View(Render("dashboard.html"))

students_list == View(Render("students_list.html"))

unpaid == View(Render("unpaid.html"))

view_logs == View(Render("logs.html"))

summary == View(Render("summary.html"))

api_class_stats == resp' = Json /\ Unchanged

-----------------------------------------------------------------------------
(* Authentication *)

\* admins_col.find_one({"username": username}): the first match, 0 when there is none
FindAdmin(username) ==
    IF \E i \in 1..Len(admins) : admins[i].username = username
    THEN CHOOSE i \in 1..Len(admins) :
            /\ admins[i].username = username
            /\ \A j \in 1..(i - 1) : admins[j].username # username
    ELSE 0

\* the unknown username told apart from the wrong password
login_post_telling(username, password) ==
    LET admin == FindAdmin(username)
    IN  IF admin = 0
        THEN /\ CanFlash
             /\ flashes' = Flashed(flashes, "error", "Unknown user")
             /\ resp' = Redirect("login", 0)
             /\ UNCHANGED <<students, nextId, logs, admins, session, now, arg, ret, inflight>>
        ELSE IF ~check_password_hash(admins[admin].password_hash, password)
        THEN /\ CanFlash
             /\ flashes' = Flashed(flashes, "error", "Invalid credentials")
             /\ resp' = Redirect("login", 0)
             /\ UNCHANGED <<students, nextId, logs, admins, session, now, arg, ret, inflight>>
        ELSE /\ session' = <<admin>>
             /\ flashes' = Flashed(<<>>, "success", "Logged in")
             /\ resp' = Redirect("dashboard", 0)
             /\ UNCHANGED <<students, nextId, logs, admins, now, arg, ret, inflight>>

\* the login that leaves the earlier notices in the queue
login_post_keeping_notices(username, password) ==
    LET admin == FindAdmin(username)
    IN  IF admin = 0 \/ ~check_password_hash(admins[admin].password_hash, password)
        THEN /\ CanFlash
             /\ flashes' = Flashed(flashes, "error", "Invalid credentials")
             /\ resp' = Redirect("login", 0)
             /\ UNCHANGED <<students, nextId, logs, admins, session, now, arg, ret, inflight>>
        ELSE /\ session' = <<admin>>
             /\ flashes' = Flashed(flashes, "success", "Logged in")
             /\ resp' = Redirect("dashboard", 0)
             /\ UNCHANGED <<students, nextId, logs, admins, now, arg, ret, inflight>>

\* login, POST
login_post(username, password) ==
    LET admin == FindAdmin(username)
    IN  IF admin = 0 \/ ~check_password_hash(admins[admin].password_hash, password)
        THEN /\ CanFlash
             /\ flashes' = Flashed(flashes, "error", "Invalid credentials")
             /\ resp' = Redirect("login", 0)
             /\ UNCHANGED <<students, nextId, logs, admins, session, now, arg, ret, inflight>>
        ELSE /\ session' = <<admin>>
             /\ flashes' = Flashed(<<>>, "success", "Logged in")
             /\ resp' = Redirect("dashboard", 0)
             /\ UNCHANGED <<students, nextId, logs, admins, now, arg, ret, inflight>>

\* login, GET
login_get == View(Render("login.html"))

\* logout, behind login_required
logout ==
    \/ ~is_authenticated /\ unauthorized
    \/ /\ is_authenticated
       /\ CanFlash
       /\ session' = Anonymous
       /\ flashes' = Flashed(flashes, "info", "Logged out")
       /\ resp' = Redirect("login", 0)
       /\ UNCHANGED <<students, nextId, logs, admins, now, arg, ret, inflight>>

home == View(Render("index.html"))

-----------------------------------------------------------------------------
(* The state machine *)

NoResponse == <<"none", "", 0>>

\* a request that is not between its lookup and its write
Idle == <<>>

Requests == 1..MaxRequests

NoRequests == [r \in Requests |-> Idle]

Init ==
    /\ students = <<>>
    /\ nextId = 1
    /\ logs = <<>>
    /\ \E env \in Envs : admins = ensure_admin(<<>>, env, 1)
    /\ session = Anonymous
    /\ flashes = <<>>
    /\ now = Len(admins)
    /\ resp = NoResponse
    /\ arg = None
    /\ ret = <<>>
    /\ inflight = NoRequests

Home == home

LoginGet == login_get

LoginPost == \E u \in Usernames, p \in Passwords : login_post(u, p)

Logout == logout

Dashboard == admin_required(dashboard)

StudentsList == admin_required(students_list)

AddStudentGet == admin_required(add_student_get)

AddStudentPost ==
    admin_required(
        \E n \in RawNames, c \in RawClasses, k \in RawContacts, f \in RawFees :
            add_student_post(n, c, k, f))

EditStudentGet == admin_required(\E sid \in Sids : edit_student_get(sid))

EditStudentPost ==
    admin_required(
        \E sid \in Sids, n \in RawNames, c \in RawClasses, k \in RawContacts, f \in RawFees :
            edit_student_post(sid, n, c, k, f))

DeleteStudent == admin_required(\E sid \in Sids : delete_student(sid))

AddPayment ==
    admin_required(
        \E sid \in Sids, a \in RawAmounts, n \in RawNotes : add_payment(sid, a, n))

ApiClassStats == admin_required(api_class_stats)

Unpaid == admin_required(unpaid)

Logs == admin_required(view_logs)

Summary == admin_required(summary)

\* the process is started again: ensure_admin() runs at import
Bootstrap(env) ==
    /\ admins' = ensure_admin(admins, env, utcnow(1))
    /\ now' = IF admins' = admins THEN now ELSE utcnow(1)
    /\ UNCHANGED <<students, nextId, logs, session, flashes, resp, arg, ret, inflight>>

Restart == \E env \in Envs : Bootstrap(env)

Next ==
    \/ Home
    \/ LoginGet
    \/ LoginPost
    \/ Logout
    \/ Dashboard
    \/ StudentsList
    \/ AddStudentGet
    \/ AddStudentPost
    \/ EditStudentGet
    \/ EditStudentPost
    \/ DeleteStudent
    \/ AddPayment
    \/ ApiClassStats
    \/ Unpaid
    \/ Logs
    \/ Summary
    \/ Restart

Spec == Init /\ [][Next]_vars

-----------------------------------------------------------------------------
(* The Name Normalizer on its own *)

NameAlphabet == {"a", "B", " ", "'", "-", DottedCapitalI}

NameInputs == {None} \cup UNION {[1..n -> NameAlphabet] : n \in 0..MaxNameLen}

InitName ==
    /\ students = <<>>
    /\ nextId = 1
    /\ logs = <<>>
    /\ admins = <<>>
    /\ session = Anonymous
    /\ flashes = <<>>
    /\ now = 0
    /\ resp = NoResponse
    /\ arg \in NameInputs
    /\ ret = <<>>
    /\ inflight = NoRequests

CleanName ==
    /\ ret = <<>>
    /\ ret' = <<clean_name(arg)>>
    /\ UNCHANGED <<students, nextId, logs, admins, session, flashes, now, resp, arg, inflight>>

\* the stored name is submitted again, as by an edit that leaves the name field as shown
CleanNameAgain ==
    /\ Len(ret) = 1
    /\ ret' = Append(ret, clean_name(ret[1]))
    /\ UNCHANGED <<students, nextId, logs, admins, session, flashes, now, resp, arg, inflight>>

NextName == CleanName \/ CleanNameAgain

SpecName == InitName /\ [][NextName]_vars

-----------------------------------------------------------------------------
(* The dashboard on its own, over any store contents *)

LedgerClasses == {FormStripped(c) : c \in RawClasses}
LedgerFees == {FloatOrZero(f)[2] : f \in {<<"5">>, <<"-", "3">>}}
LedgerAmounts == {PaymentAmount(a) : a \in {<<"8">>}}

\* the documents add_student and add_payment can have written for the student `id`
LedgerDocs(id) ==
    {[name |-> [k \in 1..id |-> IF k = 1 THEN "A" ELSE "a"],
      class |-> cls,
      contact |-> <<>>,
      total_fee |-> fee,
      payments |-> [k \in 1..Len(amounts) |->
                      [amount |-> amounts[k], date |-> MaxStudents + id, note |-> None]],
      created_at |-> id,
      updated_at |-> IF amounts = <<>> THEN id ELSE MaxStudents + id] :
        cls \in LedgerClasses, fee \in LedgerFees,
        amounts \in UNION {[1..n -> LedgerAmounts] : n \in 0..MaxPayments}}

\* the stores of n students
RECURSIVE StoresOf(_)
StoresOf(n) ==
    IF n = 0 THEN {<<>>}
    ELSE {Append(col, doc) : col \in StoresOf(n - 1), doc \in LedgerDocs(n)}

\* the stores of at most n students
LedgerStores(n) == UNION {StoresOf(k) : k \in 0..n}

InitLedger ==
    /\ students \in LedgerStores(MaxStudents)
    /\ nextId = Len(students) + 1
    /\ logs = <<>>
    /\ admins = <<>>
    /\ session = Anonymous
    /\ flashes = <<>>
    /\ now = 2 * MaxStudents
    /\ resp = NoResponse
    /\ arg \in ClassOrders(students)
    /\ ret = <<>>
    /\ inflight = NoRequests

\* the figures dashboard computes, arg being the list distinct("class") returned
DashboardReport ==
    /\ ret = <<>>
    /\ ret' = <<DashboardData(students, arg)>>
    /\ UNCHANGED <<students, nextId, logs, admins, session, flashes, now, resp, arg, inflight>>

NextLedger == DashboardReport

SpecLedger == InitLedger /\ [][NextLedger]_vars

-----------------------------------------------------------------------------
(* The login on its own, over any queue of pending notices *)

\* the notices requests of an anonymous session queue: unauthorized, a failed login, logout
Notices ==
    {<<"message", "Please log in to access this page.">>,
     <<"error", "Invalid credentials">>,
     <<"info", "Logged out">>}

Queues == UNION {[1..n -> Notices] : n \in 0..MaxQueued}

\* arg keeps the queue the session had before its logins
InitNotices ==
    /\ students = <<>>
    /\ nextId = 1
    /\ logs = <<>>
    /\ \E env \in Envs : admins = ensure_admin(<<>>, env, 1)
    /\ session = Anonymous
    /\ flashes \in Queues
    /\ now = Len(admins)
    /\ resp = NoResponse
    /\ arg = flashes
    /\ ret = <<>>
    /\ inflight = NoRequests

NextNotices == LoginPost

SpecNotices == InitNotices /\ [][NextNotices]_vars

-----------------------------------------------------------------------------
(* Create and Update as served by concurrent threads: the duplicate lookup and the write *)
(* of a request are two steps, and steps of other requests may come between them        *)

RaceFees == {<<"5">>}

\* what a request holds between its lookup and its write:
\* <<operation, student id, name, class, contact, total_fee>>
Held(op, sid, name, cls, contact, total_fee) == <<op, sid, name, cls, contact, total_fee>>

\* add_student, POST, up to the duplicate lookup; the request ends here on a ValueError
\* and on a duplicate
add_student_check(r, raw_name, raw_cls, raw_contact, raw_fee) ==
    LET name == clean_name(raw_name)
        cls == FormStripped(raw_cls)
        contact == FormStripped(raw_contact)
        total_fee == FloatOrZero(raw_fee)
    IN  /\ inflight[r] = Idle
        /\ IF ~total_fee[1] \/ Existing(name, cls, {}) # {}
           THEN add_student_post(raw_name, raw_cls, raw_contact, raw_fee)
           ELSE /\ inflight' = [inflight EXCEPT
                                  ![r] = Held("add_student", 0, name, cls, contact, total_fee[2])]
                /\ UNCHANGED <<students, nextId, logs, admins, session, flashes, now, resp,
                               arg, ret>>

\* add_student, POST, from the insert on
add_student_write(r) ==
    /\ inflight[r] # Idle
    /\ inflight[r][1] = "add_student"
    /\ add_student_insert(inflight[r][3], inflight[r][4], inflight[r][5], inflight[r][6])
    /\ inflight' = [inflight EXCEPT ![r] = Idle]

\* edit_student, POST, up to the duplicate lookup; the request ends here on a malformed or
\* unknown id, on a ValueError and on a duplicate
edit_student_check(r, sid, raw_name, raw_cls, raw_contact, raw_fee) ==
    LET name == clean_name(raw_name)
        cls == FormStripped(raw_cls)
        contact == FormStripped(raw_contact)
        total_fee == FloatOrZero(raw_fee)
    IN  /\ inflight[r] = Idle
        /\ IF \/ sid = MalformedSid
              \/ sid \notin Ids
              \/ ~total_fee[1]
              \/ Existing(name, cls, {sid}) # {}
           THEN edit_student_post(sid, raw_name, raw_cls, raw_contact, raw_fee)
           ELSE /\ inflight' = [inflight EXCEPT
                                  ![r] = Held("edit_student", sid, name, cls, contact,
                                              total_fee[2])]
                /\ UNCHANGED <<students, nextId, logs, admins, session, flashes, now, resp,
                               arg, ret>>

\* edit_student, POST, from the update on
edit_student_write(r) ==
    /\ inflight[r] # Idle
    /\ inflight[r][1] = "edit_student"
    /\ edit_student_update(inflight[r][2], inflight[r][3], inflight[r][4], inflight[r][5],
                           inflight[r][6])
    /\ inflight' = [inflight EXCEPT ![r] = Idle]

AddStudentCheck ==
    admin_required(
        \E r \in Requests, n \in RawNames, c \in RawClasses, k \in RawContacts, f \in RaceFees :
            add_student_check(r, n, c, k, f))

AddStudentWrite == \E r \in Requests : add_student_write(r)

EditStudentCheck ==
    admin_required(
        \E r \in Requests, sid \in Sids, n \in RawNames, c \in RawClasses,
           k \in RawContacts, f \in RaceFees :
            edit_student_check(r, sid, n, c, k, f))

EditStudentWrite == \E r \in Requests : edit_student_write(r)

NextRace ==
    \/ LoginPost
    \/ StudentsList
    \/ AddStudentCheck
    \/ AddStudentWrite
    \/ EditStudentCheck
    \/ EditStudentWrite

SpecRace == Init /\ [][NextRace]_vars

-----------------------------------------------------------------------------
(* Properties *)

LastFlash == flashes[Len(flashes)]

\* this step queued the notice `message`
Queued(message) ==
    /\ flashes' # <<>>
    /\ flashes' # flashes
    /\ flashes'[Len(flashes')][2] = message

NotifiedOf(message) == flashes # <<>> /\ LastFlash[2] = message

IsPrefix(s, t) == Len(s) <= Len(t) /\ SubSeq(t, 1, Len(s)) = s

\* another stored student has this normalized name and class
Collides(raw_name, raw_cls, skip) ==
    \E i \in Ids \ skip :
        /\ students[i].name = clean_name(raw_name)
        /\ students[i].class = FormStripped(raw_cls)

\* C1: no two distinct Students have the same (name, class) pair
C1_UniqueNameClass ==
    \A i \in Ids : \A j \in Ids :
        i # j => ~(students[i].name = students[j].name /\ students[i].class = students[j].class)

\* two students are stored and an Update that would make them collide has been turned down
C1_Witness ==
    /\ Cardinality(Ids) = 2
    /\ resp = Redirect("edit_student", resp[3])
    /\ NotifiedOf("Another student with this name already exists in this class!")

ManagementRequest ==
    \/ Dashboard
    \/ StudentsList
    \/ AddStudentGet
    \/ AddStudentPost
    \/ EditStudentGet
    \/ EditStudentPost
    \/ DeleteStudent
    \/ AddPayment
    \/ Unpaid
    \/ Logs
    \/ Summary
    \/ ApiClassStats

\* C2: a management request of an anonymous session changes neither the student store,
\* nor the audit log, nor the admin set, and is answered by a redirect to the login page
C2_AnonymousIsRedirected ==
    [][(~is_authenticated /\ ManagementRequest) =>
          /\ UNCHANGED <<students, nextId, logs, admins>>
          /\ resp' = Redirect("login", 0)
          /\ session' = session]_vars

\* an anonymous session has been sent to the login page while students and log entries exist
C2_Witness ==
    /\ session = Anonymous
    /\ students # <<>>
    /\ logs # <<>>
    /\ resp = Redirect("login", 0)
    /\ NotifiedOf("Please log in to access this page.")

Appended(action) ==
    /\ Len(logs') = Len(logs) + 1
    /\ SubSeq(logs', 1, Len(logs)) = logs
    /\ logs'[Len(logs')].action = action
    /\ logs'[Len(logs')].by = current_username

\* C3: a Create, Update, Delete or AppendPayment that is carried out appends exactly one
\* entry, with the operation as action and the acting admin as `by`; no step changes or
\* removes an entry
C3_OneEntryPerOperation ==
    [][/\ IsPrefix(logs, logs')
       /\ students' # students => Len(logs') = Len(logs) + 1
       /\ Queued("Student added") => Appended("add_student")
       /\ Queued("Student updated") => Appended("edit_student")
       /\ Queued("Student deleted") => Appended("delete_student")
       /\ Queued("Payment recorded") => Appended("add_payment")]_vars

\* the log holds a Create, an AppendPayment and a Delete, in this order
C3_Witness ==
    /\ Len(logs) = 3
    /\ logs[1].action = "add_student"
    /\ logs[2].action = "add_payment"
    /\ logs[3].action = "delete_student"
    /\ \A k \in 1..3 : logs[k].by = "admin"
    /\ NotifiedOf("Student deleted")

\* C4: a Create, or an Update of an existing Student, whose normalized name and class are
\* those of another stored Student leaves the student store and the audit log as they were
\* (stated by its contrapositive: a step that changes the store or the log is no such request)
C4_ConflictHasNoEffect ==
    [][(is_authenticated /\ ~UNCHANGED <<students, nextId, logs>>) =>
          /\ \A n \in RawNames, c \in RawClasses :
                Collides(n, c, {}) =>
                    \A k \in RawContacts, f \in RawFees : ~add_student_post(n, c, k, f)
          /\ \A sid \in Ids, n \in RawNames, c \in RawClasses :
                Collides(n, c, {sid}) =>
                    \A k \in RawContacts, f \in RawFees :
                        ~edit_student_post(sid, n, c, k, f)]_vars

\* a Create has been turned down as a duplicate
C4_Witness ==
    /\ students # <<>>
    /\ resp = Redirect("add_student", 0)
    /\ NotifiedOf("A student with this name already exists in this class!")

\* None, "" and what float() rejects
Malformed(raw) == raw = None \/ raw = <<>> \/ ~Float(raw)[1]

\* C5: a malformed total_fee of Create and Update, and a malformed amount of
\* AppendPayment, is taken as 0 and the request ends on its success path
C5_MalformedNumberIsZero ==
    [][/\ \A n \in RawNames, c \in RawClasses, k \in RawContacts, f \in RawFees :
            (/\ is_authenticated /\ Malformed(f) /\ ~Collides(n, c, {})
             /\ add_student_post(n, c, k, f))
                => /\ resp' = Redirect("students_list", 0)
                   /\ students'[nextId].total_fee = 0
       /\ \A sid \in Ids, n \in RawNames, c \in RawClasses, k \in RawContacts, f \in RawFees :
            (/\ is_authenticated /\ Malformed(f) /\ ~Collides(n, c, {sid})
             /\ edit_student_post(sid, n, c, k, f))
                => /\ resp' = Redirect("students_list", 0)
                   /\ students'[sid].total_fee = 0
       /\ \A sid \in Ids, a \in RawAmounts, n \in RawNotes :
            (is_authenticated /\ Malformed(a) /\ add_payment(sid, a, n))
                => /\ resp' = Redirect("edit_student", sid)
                   /\ students'[sid].payments[Len(students'[sid].payments)].amount = 0]_vars

\* C6: a successful Update of s changes of s only name, class, contact, total_fee and
\* updated_at, and changes no other Student
C6_UpdateFrame ==
    [][(is_authenticated /\ Queued("Student updated")) =>
        \A sid \in Ids, n \in RawNames, c \in RawClasses, k \in RawContacts, f \in RawFees :
          edit_student_post(sid, n, c, k, f)
              => /\ DOMAIN students' = DOMAIN students
                 /\ students'[sid].payments = students[sid].payments
                 /\ students'[sid].created_at = students[sid].created_at
                 /\ students'[sid].updated_at > students[sid].updated_at
                 /\ students'[sid].name = clean_name(n)
                 /\ students'[sid].class = FormStripped(c)
                 /\ students'[sid].contact = FormStripped(k)
                 /\ \A i \in Ids \ {sid} : students'[i] = students[i]]_vars

\* a Student that has a payment has just been updated
C6_Witness ==
    /\ NotifiedOf("Student updated")
    /\ \E i \in Ids :
          /\ students[i].payments # <<>>
          /\ students[i].updated_at = now - 1
          /\ students[i].created_at < students[i].payments[1].date

\* C7: AppendPayment on an existing Student s adds one Payment at the end of s.payments,
\* refreshes s.updated_at and changes nothing else, whatever the amount
C7_PaymentIsAppended ==
    [][\A sid \in Ids, a \in RawAmounts, n \in RawNotes :
          (is_authenticated /\ add_payment(sid, a, n))
              => /\ resp' = Redirect("edit_student", sid)
                 /\ DOMAIN students' = DOMAIN students
                 /\ Len(students'[sid].payments) = Len(students[sid].payments) + 1
                 /\ IsPrefix(students[sid].payments, students'[sid].payments)
                 /\ students'[sid].updated_at > students[sid].updated_at
                 /\ [students'[sid] EXCEPT !.payments = <<>>, !.updated_at = 0]
                      = [students[sid] EXCEPT !.payments = <<>>, !.updated_at = 0]
                 /\ \A i \in Ids \ {sid} : students'[i] = students[i]]_vars

\* a second payment has been recorded for a Student, and the balance is negative
C7_Witness ==
    /\ NotifiedOf("Payment recorded")
    /\ resp[3] \in Ids
    /\ Len(students[resp[3]].payments) = 2
    /\ students[resp[3]].payments[1].date < students[resp[3]].payments[2].date
    /\ calc_unpaid(students[resp[3]]) < 0

\* C8: a Delete or an AppendPayment whose well-formed identifier matches no Student leaves
\* the student store as it was and ends as it does for an existing identifier
C8_MissingIdIsNoOp ==
    [][/\ \A sid \in 1..MaxIds :
            (is_authenticated /\ delete_student(sid))
                => /\ resp' = Redirect("students_list", 0)
                   /\ Queued("Student deleted")
                   /\ sid \notin Ids => students' = students
       /\ \A sid \in 1..MaxIds, a \in RawAmounts, n \in RawNotes :
            (is_authenticated /\ add_payment(sid, a, n))
                => /\ resp' = Redirect("edit_student", sid)
                   /\ Queued("Payment recorded")
                   /\ sid \notin Ids => students' = students]_vars

\* a payment for an identifier that matches no Student has been answered as recorded
C8_Witness ==
    /\ students # <<>>
    /\ resp[1] = "redirect"
    /\ resp[2] = "edit_student"
    /\ resp[3] \notin Ids
    /\ NotifiedOf("Payment recorded")

KnownUsername(username) == \E i \in 1..Len(admins) : admins[i].username = username

Authentic(username, password) ==
    \E i \in 1..Len(admins) :
        /\ admins[i].username = username
        /\ admins[i].password_hash = generate_password_hash(password)

-----------------------------------------------------------------------------
(* Properties of the Name Normalizer *)

RECURSIVE Concat(_)
Concat(strings) == IF strings = <<>> THEN <<>> ELSE Head(strings) \o Concat(Tail(strings))

\* a token with its first character upper-cased and the others lower-cased
Capitalized(token) ==
    Concat([i \in 1..Len(token) |-> IF i = 1 THEN ToUpper(token[i]) ELSE ToLower(token[i])])

\* a token with every letter upper-cased unless the character before it is a letter
TitleCased(token) ==
    Concat([i \in 1..Len(token) |->
              IF i = 1 \/ ~IsCased(token[i - 1]) THEN ToUpper(token[i]) ELSE ToLower(token[i])])

\* the result is the whitespace-separated tokens of the input, each changed by Op, joined
\* by single spaces
TokensAre(Op(_), input, result) ==
    result = JoinSpace([k \in 1..Len(Split(input)) |-> Op(Split(input)[k])])

NonEmptyInput == arg # None /\ arg # <<>>

C11_Idempotent ==
    Len(ret) = 2 => ret[2] = ret[1]

-----------------------------------------------------------------------------
(* Properties of the stored documents *)

\* C12: every stored Student has total_fee >= 0
C12_FeeIsNonNegative ==
    \A i \in Ids : students[i].total_fee >= 0

\* C13: every stored Student has a non-empty name
C13_NameIsNonEmpty ==
    \A i \in Ids : students[i].name # <<>>

-----------------------------------------------------------------------------
(* Properties of the dashboard *)

\* the float sum of a list of numbers, from 0 and in list order
RECURSIVE SumSeq(_, _)
SumSeq(values, acc) ==
    IF values = <<>> THEN acc ELSE SumSeq(Tail(values), FAdd(acc, Head(values)))

\* C14: the dashboard lists every class once; its total_collected is the sum of the
\* collected figures of the listed classes and its total_outstanding the sum of their
\* outstanding figures, the outstanding of a class being its class_total - collected
C14_TotalsAreSumsOverClasses ==
    ret # <<>> =>
        LET d == ret[1]
            stats == d.class_stats
        IN  /\ Len(stats) = Cardinality(Classes(students))
            /\ {stats[k].class : k \in 1..Len(stats)} = Classes(students)
            /\ \A k \in 1..Len(stats) :
                  /\ stats[k].outstanding = FSub(stats[k].class_total, stats[k].collected)
                  /\ stats[k].students_count
                        = Cardinality({i \in Ids : students[i].class = stats[k].class})
            /\ d.total_collected = SumSeq([k \in 1..Len(stats) |-> stats[k].collected], 0)
            /\ d.total_outstanding = SumSeq([k \in 1..Len(stats) |-> stats[k].outstanding], 0)

\* the dashboard of three students in two classes, both classes with payments, one class
\* overpaid
C14_Witness ==
    /\ ret # <<>>
    /\ Cardinality(Ids) = 3
    /\ Len(ret[1].class_stats) = 2
    /\ \A k \in 1..2 : ret[1].class_stats[k].collected > 0
    /\ \E k \in 1..2 : ret[1].class_stats[k].outstanding < 0
    /\ \E k \in 1..2 : ret[1].class_stats[k].students_count = 2
    /\ ret[1].total_collected = 24

\* the float sum of the balances of all students, in the order of the store
RECURSIVE SumUnpaidFrom(_, _, _)
SumUnpaidFrom(col, S, acc) ==
    IF S = {} THEN acc
    ELSE SumUnpaidFrom(col, S \ {First(S)}, FAdd(acc, calc_unpaid(col[First(S)])))

Abs(x) == IF x < 0 THEN 0 - x ELSE x

RECURSIVE Magnitudes(_)
Magnitudes(payments) ==
    IF payments = <<>> THEN 0 ELSE Abs(Head(payments).amount) + Magnitudes(Tail(payments))

\* the sum, as numbers, of the magnitudes of every fee and payment amount of the store
RECURSIVE Magnitude(_, _)
Magnitude(col, S) ==
    IF S = {} THEN 0
    ELSE Abs(col[First(S)].total_fee) + Magnitudes(col[First(S)].payments)
           + Magnitude(col, S \ {First(S)})

\* every sum and difference of amounts of the store is a whole number the mantissa holds,
\* so no float operation on them rounds
SumsAreExact(col) == Magnitude(col, DOMAIN col) <= Pow2(MantissaBits)

\* the dashboard counts every student in one listed class, its total_outstanding is the sum
\* of the balances of the students, and total_collected + total_outstanding is the sum of
\* their fees; the unpaid report lists the students with a positive balance
DashboardAgrees(col, classes) ==
    LET d == DashboardData(col, classes)
    IN  /\ \A i \in DOMAIN col :
              Cardinality({k \in 1..Len(classes) : i \in InClass(col, classes[k])}) = 1
        /\ d.total_outstanding = SumUnpaidFrom(col, DOMAIN col, 0)
        /\ FAdd(d.total_collected, d.total_outstanding) = SumFees(col, DOMAIN col)
        /\ {u.id : u \in UnpaidList(col)} = {i \in DOMAIN col : calc_unpaid(col[i]) > 0}
        /\ \A u \in UnpaidList(col) : u.unpaid = calc_unpaid(col[u.id])

-----------------------------------------------------------------------------
(* Properties of the bootstrap *)

\* a plaintext password or a pre-hashed one is supplied
Supplied(env) == env.ADMIN_PASSWORD # "" \/ env.ADMIN_PASSWORD_HASH # <<>>

\* C15: a bootstrap run on an empty admin set creates exactly one Admin when a password or
\* a hash is supplied and none when neither is; a run on a non-empty admin set creates
\* none; so there is never a second Admin
C15_AtMostOneAdmin ==
    /\ Len(admins) <= 1
    /\ \A env \in Envs :
          LET after == ensure_admin(admins, env, utcnow(1))
          IN  IF Len(admins) > 0 THEN after = admins
              ELSE IF ~Supplied(env) THEN after = admins
              ELSE /\ Len(after) = 1
                   /\ after[1].username = env.ADMIN_USERNAME
                   /\ \/ after[1].password_hash = env.ADMIN_PASSWORD_HASH
                      \/ check_password_hash(after[1].password_hash, env.ADMIN_PASSWORD)

\* the one Admin of the bootstrap has logged in and added a student; a restart with
\* credentials finds the admin set non-empty
C15_Witness ==
    /\ Len(admins) = 1
    /\ admins[1].username = "admin"
    /\ is_authenticated
    /\ students # <<>>
    /\ \E env \in Envs : Supplied(env) /\ ensure_admin(admins, env, utcnow(1)) = admins

-----------------------------------------------------------------------------
(* Properties of the login *)

LoggedIn == <<"success", "Logged in">>

\* C16: after a successful Login the queue of pending notices holds the logged-in
\* confirmation and nothing else, whatever it held before
C16_LoginClearsNotices ==
    [][\A u \in Usernames, p \in Passwords :
          (Authentic(u, p) /\ login_post(u, p))
              => /\ flashes' = <<LoggedIn>>
                 /\ session' # Anonymous
                 /\ resp' = Redirect("dashboard", 0)]_vars

\* a session with a full queue of earlier notices has logged in
C16_Witness ==
    /\ Len(arg) = MaxQueued
    /\ \E k \in 1..Len(arg) : arg[k][2] = "Please log in to access this page."
    /\ \E k \in 1..Len(arg) : arg[k][2] = "Invalid credentials"
    /\ is_authenticated
    /\ flashes = <<LoggedIn>>
    /\ resp = Redirect("dashboard", 0)

-----------------------------------------------------------------------------
(* Properties of concurrent requests *)

SharesNameClass(col) ==
    \E i \in DOMAIN col, j \in DOMAIN col :
        i # j /\ col[i].name = col[j].name /\ col[i].class = col[j].class

\* C17: the write of a Create or an Update follows its duplicate lookup without looking
\* again: it persists the name and class the request holds even when another request has
\* stored the same pair since the lookup, and the store then holds the pair twice
C17_WriteDoesNotLookAgain ==
    [][\A r \in Requests :
          /\ add_student_write(r) =>
                /\ Ids' = Ids \cup {nextId}
                /\ nextId \notin Ids
                /\ students'[nextId].name = inflight[r][3]
                /\ students'[nextId].class = inflight[r][4]
                /\ \A i \in Ids : students'[i] = students[i]
                /\ Existing(inflight[r][3], inflight[r][4], {}) # {}
                      => SharesNameClass(students')
          /\ (edit_student_write(r) /\ inflight[r][2] \in Ids) =>
                /\ Ids' = Ids
                /\ students'[inflight[r][2]].name = inflight[r][3]
                /\ students'[inflight[r][2]].class = inflight[r][4]
                /\ Existing(inflight[r][3], inflight[r][4], {inflight[r][2]}) # {}
                      => SharesNameClass(students')]_vars

\* two Creates of the same name and class have both been persisted
C17_Witness ==
    /\ inflight = NoRequests
    /\ SharesNameClass(students)
    /\ Len(logs) = 2
    /\ \A k \in 1..2 : logs[k].action = "add_student"
    /\ \A i \in Ids : students[i].name # <<>>

====
